---- MODULE Spec2Model ----
(***************************************************************************)
(* Model of source/agent.py: the Potpie remote client, its readiness       *)
(* poller (get_parsing_status) and the five agent tools built on them.     *)
(*                                                                         *)
(* Strings are sequences of tokens.  Every message template of the source  *)
(* is split so that its first word is its first token, which makes         *)
(* str.startswith(word) a test of the first token and "s contains t" a     *)
(* test for a contiguous run of tokens.                                    *)
(*                                                                         *)
(* A remote response is a record [kind, key, val]:                         *)
(*   kind = "dict"  a JSON object; val is the value it holds under the one *)
(*                  key the code reads (Absent when the key is missing,    *)
(*                  Null for JSON null, "" for the empty string);          *)
(*   kind = "list"  a JSON value that is not an object;                    *)
(*   kind = "error" _make_request raised RequestException, val = str(e).   *)
(*                                                                         *)
(* A step of the machine runs from one suspension point of the code (an    *)
(* awaited remote request, a time.sleep) to the next.  The clock is read   *)
(* in whole seconds and never runs backwards; a request may take no        *)
(* measurable time.  The agno @tool decorator is taken to leave the        *)
(* decorated coroutine callable, as analyze_repository and                 *)
(* get_repository_trends assume when they await ask_parsed_repo.           *)
(***************************************************************************)
EXTENDS Integers, Sequences, FiniteSets, TLC

VARIABLES
    tool,             \* outermost function invoked ("idle" before any call)
    pc,               \* where the invocation is suspended
    repo_name,        \* argument of the repo tools (sequence of characters)
    project_id,       \* argument or local of the running tool
    wait_for_ready,   \* get_parsing_status parameter
    timeout,          \* get_parsing_status parameter
    poll_interval,    \* get_parsing_status parameter
    start_time,       \* get_parsing_status local
    clock,            \* time.time()
    calls,            \* remote requests issued by this invocation, in order
    returned,         \* how many of them have come back
    fetched,          \* status values seen by the running poller, in order
    sleeps,           \* time.sleep calls made by the running poller
    polled,           \* what get_parsing_status returned (NoResp if nothing)
    ask_outcome,      \* path by which ask_parsed_repo ended ("none" if not)
    ask_ret,          \* the string ask_parsed_repo returned
    failure,          \* str(e) of the transport failure met (NoFailure if none)
    parsed,           \* parse_result: what parse_repository returned
    conversation_id,  \* ask_parsed_repo local (Null until assigned)
    sent,             \* message_response: what send_message returned
    result            \* what the outermost function did: returned / raised

vars == <<tool, pc, repo_name, project_id, wait_for_ready, timeout,
          poll_interval, start_time, clock, calls, returned, fetched, sleeps,
          polled, ask_outcome, ask_ret, failure, parsed, conversation_id,
          sent, result>>

-----------------------------------------------------------------------------
(* Bounds of the model *)

MaxFetches == 3       \* status fetches one poller run may make
MaxRepoLen == 3       \* characters in a repo_name
SlowFetch == 300      \* duration of a slow request, in seconds
MaxOversleep == 1     \* seconds time.sleep may overshoot

(* Program constants *)

DefaultTimeout == 300
DefaultPollInterval == 10
AskTimeout == 600

-----------------------------------------------------------------------------
(* Values *)

Absent == "<absent>"
Null == "<null>"
NoFailure == "<no failure>"

DictResp(k, v) == [kind |-> "dict", key |-> k, val |-> v]
ListResp == [kind |-> "list", key |-> "", val |-> Absent]
ErrResp(m) == [kind |-> "error", key |-> "", val |-> m]
NoResp == [kind |-> "none", key |-> "", val |-> Absent]

NoExc == [cls |-> "none", msg |-> <<>>]
Exc(c, m) == [cls |-> c, msg |-> m]

Pending == [outcome |-> "none", str |-> <<>>, exc |-> NoExc]
Returned(s) == [outcome |-> "returned", str |-> s, exc |-> NoExc]
Raised(e) == [outcome |-> "raised", str |-> <<>>, exc |-> e]

(* Inputs the environment may supply *)

Chars == {"o", "/"}
RepoNames == UNION {[1..n -> Chars] : n \in 0..MaxRepoLen}
ChainRepos == {<<>>, <<"o", "/", "o">>}
ProjectIds == {"", "p1"}
ErrorTexts == {"503 Server Error"}
FetchTimes == {0, 1, SlowFetch}

FieldValues(k) ==
    CASE k = "status" -> {"queued", "ready", Absent}
      [] k = "project_id" -> {"p1", "", Null, Absent}
      [] k = "conversation_id" -> {"c1", "", Absent}
      [] k = "message" -> {"42", Absent}

Responses(k) ==
    {DictResp(k, v) : v \in FieldValues(k)} \cup {ListResp}
        \cup {ErrResp(m) : m \in ErrorTexts}

-----------------------------------------------------------------------------
(* Python built-ins the code relies on *)

\* bool(v) for None and str
Truthy(v) == v # Null /\ v # Absent /\ v # ""

\* str(v) of a str or None inside an f-string
StrOf(v) == IF v = Null \/ v = Absent THEN "None" ELSE v

\* repr(v) of a str or None, as it appears inside str(dict)
Repr(v) == IF v = Null THEN <<"None">> ELSE <<"'", v, "'">>

\* str(n) for the integers the code formats
NumStr(n) ==
    CASE n = 0 -> "0"
      [] n = DefaultTimeout -> "300"
      [] n = AskTimeout -> "600"
      [] OTHER -> "n"

\* str(x) of a decoded JSON value
Str(r) ==
    IF r.kind = "dict"
    THEN IF r.val = Absent
         THEN <<"{}">>
         ELSE <<"{", "'", r.key, "'", ":">> \o Repr(r.val) \o <<"}">>
    ELSE <<"[]">>

\* s.startswith(w), w a single word
StartsWith(s, w) == Len(s) > 0 /\ s[1] = w

\* t in s
Contains(s, t) ==
    \E i \in 0..(Len(s) - Len(t)) : SubSeq(s, i + 1, i + Len(t)) = t

\* d.get(key) on a response: the value, or None; AttributeError on a non-dict
IsDict(r) == r.kind = "dict"
Get(r) == IF r.val = Absent THEN Null ELSE r.val
HasKey(r) == r.val # Absent
NoGetAttr == Exc("AttributeError", <<"'list' object has no attribute 'get'">>)
RequestException(r) == Exc("RequestException", <<r.val>>)

-----------------------------------------------------------------------------
(* Potpie.get_parsing_status: what one pass of the loop does with the      *)
(* response r of its fetch, the clock reading `now` at the deadline check. *)

TimeoutError(pid, to) ==
    Exc("TimeoutError",
        <<"Project", pid, "did not become ready within", NumStr(to), "seconds.">>)

PollReturn(r) == [act |-> "return", rec |-> r, exc |-> NoExc]
PollRaise(e) == [act |-> "raise", rec |-> NoResp, exc |-> e]
PollSleep == [act |-> "sleep", rec |-> NoResp, exc |-> NoExc]

\* variant: the deadline is compared with >= instead of >
DeadlinePassed_Inclusive(now, start, to) == now - start >= to

DeadlinePassed(now, start, to) == now - start > to

\* variant: the deadline is checked before the status is looked at
get_parsing_status_DeadlineFirst(r, pid, wait, to, start, now) ==
    IF r.kind = "error" THEN PollRaise(RequestException(r))
    ELSE IF ~wait THEN PollReturn(r)
    ELSE IF ~IsDict(r) THEN PollRaise(NoGetAttr)
    ELSE IF now - start > to THEN PollRaise(TimeoutError(pid, to))
    ELSE IF Get(r) = "ready" THEN PollReturn(r)
    ELSE PollSleep

\* variant: on the deadline the last status record is returned, not raised
get_parsing_status_ReturnOnDeadline(r, pid, wait, to, start, now) ==
    IF r.kind = "error" THEN PollRaise(RequestException(r))
    ELSE IF ~wait THEN PollReturn(r)
    ELSE IF ~IsDict(r) THEN PollRaise(NoGetAttr)
    ELSE IF Get(r) = "ready" THEN PollReturn(r)
    ELSE IF now - start > to THEN PollReturn(r)
    ELSE PollSleep

get_parsing_status(r, pid, wait, to, start, now) ==
    IF r.kind = "error" THEN PollRaise(RequestException(r))
    ELSE IF ~wait THEN PollReturn(r)
    ELSE IF ~IsDict(r) THEN PollRaise(NoGetAttr)
    ELSE IF Get(r) = "ready" THEN PollReturn(r)
    ELSE IF DeadlinePassed(now, start, to) THEN PollRaise(TimeoutError(pid, to))
    ELSE PollSleep

-----------------------------------------------------------------------------
(* The tools: their except clauses and the code between their awaits *)

HasSlash(repo) == \E i \in 1..Len(repo) : repo[i] = "/"

InvalidRepoName ==
    <<"Invalid", "repository name format. Expected format: 'owner/repo'">>
InvalidProjectId == <<"Invalid", "project_id: Project ID cannot be empty">>

\* start_repo_parsing
StartExcept(e) ==
    IF e.cls = "RequestException"
    THEN Returned(<<"Failed", "to parse repository:", "Network error -">> \o e.msg)
    ELSE Returned(<<"Failed", "to parse repository:">> \o e.msg)

StartAfterParse(repo, r) ==
    IF r.kind = "error" THEN StartExcept(RequestException(r))
    ELSE IF IsDict(r) /\ HasKey(r)
    THEN Returned(<<"Successfully", "started parsing repository">> \o repo
                  \o <<"Project ID:", StrOf(r.val), "Status: Parsing initiated">>)
    ELSE Returned(<<"Failed", "to parse repository:", "Invalid API response format">>)

\* check_repo_parsing_status
CheckExcept(e) ==
    IF e.cls = "RequestException"
    THEN Returned(<<"Failed", "to get parsing status:", "Network error -">> \o e.msg)
    ELSE Returned(<<"Failed", "to get parsing status:">> \o e.msg)

CheckAfterStatus(r) ==
    IF IsDict(r)
    THEN IF Truthy(Get(r))
         THEN Returned(<<"Current", "parsing status:", Get(r)>>)
         ELSE Returned(<<"Failed", "to get parsing status:", "Invalid response format">>)
    ELSE Returned(<<"Failed", "to get parsing status:", "Invalid API response type">>)

\* variant: ask_parsed_repo without its `except TimeoutError` clause
AskExcept_NoTimeoutClause(e) ==
    Returned(<<"Failed", "to query repository:">> \o e.msg)

\* variant: ask_parsed_repo without its `except Exception` clause
AskExcept_NoCatchAll(e) ==
    IF e.cls = "TimeoutError"
    THEN Returned(<<"Timeout", "waiting for repository parsing to complete:">> \o e.msg)
    ELSE Raised(e)

\* ask_parsed_repo
AskExcept(e) ==
    IF e.cls = "TimeoutError"
    THEN Returned(<<"Timeout", "waiting for repository parsing to complete:">> \o e.msg)
    ELSE Returned(<<"Failed", "to query repository:">> \o e.msg)

NotReady(pid, r) ==
    <<"Project", pid, "is not ready for querying. Status:", StrOf(Get(r))>>
NoConversation == <<"Failed", "to create Potpie conversation.">>

\* variant: analyze_repository reports a failure without str(e)
AnalyzeExcept_NoDetail(e) ==
    IF e.cls = "TimeoutError"
    THEN Returned(<<"Timeout", "waiting for repository parsing/analysis">>)
    ELSE Returned(<<"Failed", "to analyze repository">>)

\* analyze_repository
AnalyzeExcept(e) ==
    IF e.cls = "TimeoutError"
    THEN Returned(<<"Timeout", "waiting for repository parsing/analysis:">> \o e.msg)
    ELSE Returned(<<"Failed", "to analyze repository:">> \o e.msg)

NoProjectId(repo, r) ==
    <<"Failed", "to get", "project_id", "when starting parsing for">> \o repo
        \o <<". Response:">> \o Str(r)

AnalyzeAfterAsk(repo, res) ==
    IF res.outcome = "raised" THEN AnalyzeExcept(res.exc)
    ELSE IF StartsWith(res.str, "Failed") THEN Returned(res.str)
    ELSE Returned(<<"Analysis", "of repository">> \o repo \o <<":">> \o res.str)

\* get_repository_trends
TrendsExcept(e) ==
    IF e.cls = "TimeoutError"
    THEN Returned(<<"Timeout", "waiting for repository parsing/trends:">> \o e.msg)
    ELSE Returned(<<"Failed", "to get repository trends:">> \o e.msg)

\* isinstance(trends_response, dict): ask_parsed_repo returns a str
IsInstanceDict(s) == FALSE

TrendsAfterAsk(repo, res) ==
    IF res.outcome = "raised" THEN TrendsExcept(res.exc)
    ELSE IF IsInstanceDict(res.str) /\ Contains(res.str, <<"error">>)
    THEN Returned(<<"Potpie", "query failed for trends:">> \o res.str)
    ELSE IF IsInstanceDict(res.str) /\ Contains(res.str, <<"response">>)
    THEN Returned(<<"Potpie", "trends response for">> \o repo \o <<":">> \o res.str)
    ELSE Returned(<<"Potpie", "trends raw response for">> \o repo \o <<":">> \o res.str)

-----------------------------------------------------------------------------
(* Control: what an invocation does next.  A step either ends the          *)
(* outermost function with a result or issues the next remote request.     *)

ChainTools == {"analyze_repository", "get_repository_trends"}
AskTools == ChainTools \cup {"ask_parsed_repo"}

Issue(req, nextpc) ==
    [pc |-> nextpc, issue |-> <<req>>, result |-> Pending,
     ask_outcome |-> ask_outcome, ask_ret |-> ask_ret]

End(res) ==
    [pc |-> "done", issue |-> <<>>, result |-> res,
     ask_outcome |-> ask_outcome, ask_ret |-> ask_ret]

\* ask_parsed_repo ends with res by path how; a chain tool then resumes
AskEnd(res, how) ==
    [pc |-> "done", issue |-> <<>>,
     result |-> CASE tool = "analyze_repository" -> AnalyzeAfterAsk(repo_name, res)
                  [] tool = "get_repository_trends" -> TrendsAfterAsk(repo_name, res)
                  [] OTHER -> res,
     ask_outcome |-> how, ask_ret |-> res.str]

AskRaised(e) ==
    AskEnd(AskExcept(e), IF e.cls = "TimeoutError" THEN "timeout" ELSE "error")

\* ask_parsed_repo, lines 175-178: after get_parsing_status returned r
AskAfterStatus(pid, r) ==
    IF ~IsDict(r) THEN AskRaised(NoGetAttr)
    ELSE IF Get(r) # "ready" THEN AskEnd(Returned(NotReady(pid, r)), "not_ready")
    ELSE Issue("conversation", "conv_req")

\* ask_parsed_repo, lines 178-185: after create_conversation returned r
AskAfterConversation(r) ==
    IF r.kind = "error" THEN AskRaised(RequestException(r))
    ELSE IF ~IsDict(r) THEN AskRaised(NoGetAttr)
    ELSE IF ~Truthy(Get(r)) THEN AskEnd(Returned(NoConversation), "no_conversation")
    ELSE Issue("message", "msg_req")

\* variant: the message field is returned instead of str(message_response)
AskAfterMessage_FieldOnly(r) ==
    IF r.kind = "error" THEN AskRaised(RequestException(r))
    ELSE AskEnd(Returned(<<StrOf(Get(r))>>), "ok")

\* ask_parsed_repo, lines 185-188: after send_message returned r
AskAfterMessage(r) ==
    IF r.kind = "error" THEN AskRaised(RequestException(r))
    ELSE AskEnd(Returned(Str(r)), "ok")

\* analyze_repository / get_repository_trends: after parse_repository returned r
ChainExcept(e) ==
    IF tool = "analyze_repository" THEN AnalyzeExcept(e) ELSE TrendsExcept(e)

\* variant: project_id is tested for presence, not for being non-empty
ChainAfterParse_KeyOnly(repo, r) ==
    IF r.kind = "error" THEN End(ChainExcept(RequestException(r)))
    ELSE IF ~IsDict(r) THEN End(ChainExcept(NoGetAttr))
    ELSE IF ~HasKey(r) THEN End(Returned(NoProjectId(repo, r)))
    ELSE Issue("status", "status_req")

ChainAfterParse(repo, r) ==
    IF r.kind = "error" THEN End(ChainExcept(RequestException(r)))
    ELSE IF ~IsDict(r) THEN End(ChainExcept(NoGetAttr))
    ELSE IF ~Truthy(Get(r)) THEN End(Returned(NoProjectId(repo, r)))
    ELSE Issue("status", "status_req")

\* the caller of get_parsing_status resumes with what the poller did
AfterPoll(pid, step) ==
    CASE step.act = "sleep" ->
            [pc |-> "sleeping", issue |-> <<>>, result |-> Pending,
             ask_outcome |-> ask_outcome, ask_ret |-> ask_ret]
      [] step.act = "return" ->
            (CASE tool \in AskTools -> AskAfterStatus(pid, step.rec)
               [] tool = "check_repo_parsing_status" -> End(CheckAfterStatus(step.rec))
               [] OTHER -> End(Returned(<<>>)))
      [] step.act = "raise" ->
            (CASE tool \in AskTools -> AskRaised(step.exc)
               [] tool = "check_repo_parsing_status" -> End(CheckExcept(step.exc))
               [] OTHER -> End(Raised(step.exc)))

-----------------------------------------------------------------------------
(* State machine *)

Init ==
    /\ tool = "idle"
    /\ pc = "idle"
    /\ repo_name = <<>>
    /\ project_id = ""
    /\ wait_for_ready = FALSE
    /\ timeout = 0
    /\ poll_interval = 0
    /\ start_time = 0
    /\ clock = 0
    /\ calls = <<>>
    /\ returned = 0
    /\ fetched = <<>>
    /\ sleeps = 0
    /\ polled = NoResp
    /\ ask_outcome = "none"
    /\ ask_ret = <<>>
    /\ failure = NoFailure
    /\ parsed = NoResp
    /\ conversation_id = Null
    /\ sent = NoResp
    /\ result = Pending

Apply(k) ==
    /\ pc' = k.pc
    /\ calls' = calls \o k.issue
    /\ result' = k.result
    /\ ask_outcome' = k.ask_outcome
    /\ ask_ret' = k.ask_ret

\* entry into get_parsing_status: parameters bound, start_time = time.time()
EnterPoller(pid, wait, to, pi) ==
    /\ project_id' = pid
    /\ wait_for_ready' = wait
    /\ timeout' = to
    /\ poll_interval' = pi
    /\ start_time' = clock

PollerVars == <<project_id, wait_for_ready, timeout, poll_interval, start_time>>

Met(r) == IF r.kind = "error" THEN r.val ELSE failure

\* variant: repo_name is tested for emptiness only
StartValidate_EmptyOnly(repo) ==
    IF repo = <<>>
    THEN End(Returned(InvalidRepoName))
    ELSE Issue("parse", "parse_req")

StartValidate(repo) ==
    IF repo = <<>> \/ ~HasSlash(repo)
    THEN End(Returned(InvalidRepoName))
    ELSE Issue("parse", "parse_req")

CheckValidate(pid) ==
    IF pid = ""
    THEN End(Returned(InvalidProjectId))
    ELSE Issue("status", "status_req")

CallStart(repo) ==
    /\ pc = "idle"
    /\ tool' = "start_repo_parsing"
    /\ repo_name' = repo
    /\ Apply(StartValidate(repo))
    /\ UNCHANGED <<PollerVars, clock, returned, fetched, sleeps, polled,
                   failure, parsed, conversation_id, sent>>

CallCheck(pid) ==
    /\ pc = "idle"
    /\ tool' = "check_repo_parsing_status"
    /\ Apply(CheckValidate(pid))
    /\ EnterPoller(pid, FALSE, DefaultTimeout, DefaultPollInterval)
    /\ UNCHANGED <<repo_name, clock, returned, fetched, sleeps, polled,
                   failure, parsed, conversation_id, sent>>

CallAsk(pid) ==
    /\ pc = "idle"
    /\ tool' = "ask_parsed_repo"
    /\ Apply(Issue("status", "status_req"))
    /\ EnterPoller(pid, TRUE, AskTimeout, DefaultPollInterval)
    /\ UNCHANGED <<repo_name, clock, returned, fetched, sleeps, polled,
                   failure, parsed, conversation_id, sent>>

CallAnalyze(repo) ==
    /\ pc = "idle"
    /\ tool' = "analyze_repository"
    /\ repo_name' = repo
    /\ Apply(Issue("parse", "parse_req"))
    /\ UNCHANGED <<PollerVars, clock, returned, fetched, sleeps, polled,
                   failure, parsed, conversation_id, sent>>

CallTrends(repo) ==
    /\ pc = "idle"
    /\ tool' = "get_repository_trends"
    /\ repo_name' = repo
    /\ Apply(Issue("parse", "parse_req"))
    /\ UNCHANGED <<PollerVars, clock, returned, fetched, sleeps, polled,
                   failure, parsed, conversation_id, sent>>

CallGetParsingStatus(pid, wait, to, pi) ==
    /\ pc = "idle"
    /\ tool' = "get_parsing_status"
    /\ Apply(Issue("status", "status_req"))
    /\ EnterPoller(pid, wait, to, pi)
    /\ UNCHANGED <<repo_name, clock, returned, fetched, sleeps, polled,
                   failure, parsed, conversation_id, sent>>

ParseReturn(r) ==
    /\ pc = "parse_req"
    /\ returned' = returned + 1
    /\ failure' = Met(r)
    /\ LET k == IF tool = "start_repo_parsing"
                THEN End(StartAfterParse(repo_name, r))
                ELSE ChainAfterParse(repo_name, r)
       IN  /\ Apply(k)
           /\ IF k.pc = "status_req"
              THEN EnterPoller(Get(r), TRUE, AskTimeout, DefaultPollInterval)
              ELSE UNCHANGED PollerVars
    /\ parsed' = r
    /\ UNCHANGED <<tool, repo_name, clock, fetched, sleeps, polled,
                   conversation_id, sent>>

Seen(r) ==
    CASE r.kind = "dict" -> Get(r)
      [] r.kind = "list" -> "<list>"
      [] OTHER -> "<error>"

StatusReturn(r, d) ==
    /\ pc = "status_req"
    /\ returned' = returned + 1
    /\ failure' = Met(r)
    /\ clock' = clock + d
    /\ fetched' = Append(fetched, Seen(r))
    /\ LET step == get_parsing_status(r, project_id, wait_for_ready, timeout,
                                      start_time, clock + d)
       IN  /\ Apply(AfterPoll(project_id, step))
           /\ polled' = IF step.act = "return" THEN step.rec ELSE polled
    /\ UNCHANGED <<tool, repo_name, PollerVars, sleeps, parsed,
                   conversation_id, sent>>

SleepReturn(extra) ==
    /\ pc = "sleeping"
    /\ Len(fetched) < MaxFetches
    /\ clock' = clock + poll_interval + extra
    /\ sleeps' = sleeps + 1
    /\ Apply(Issue("status", "status_req"))
    /\ UNCHANGED <<tool, repo_name, PollerVars, returned, fetched, polled,
                   failure, parsed, conversation_id, sent>>

ConversationReturn(r) ==
    /\ pc = "conv_req"
    /\ returned' = returned + 1
    /\ failure' = Met(r)
    /\ conversation_id' = IF IsDict(r) THEN Get(r) ELSE conversation_id
    /\ Apply(AskAfterConversation(r))
    /\ UNCHANGED <<tool, repo_name, PollerVars, clock, fetched, sleeps,
                   polled, parsed, sent>>

MessageReturn(r) ==
    /\ pc = "msg_req"
    /\ returned' = returned + 1
    /\ failure' = Met(r)
    /\ sent' = r
    /\ Apply(AskAfterMessage(r))
    /\ UNCHANGED <<tool, repo_name, PollerVars, clock, fetched, sleeps,
                   polled, parsed, conversation_id>>

Next ==
    \/ \E repo \in RepoNames : CallStart(repo)
    \/ \E pid \in ProjectIds : CallCheck(pid)
    \/ \E pid \in ProjectIds : CallAsk(pid)
    \/ \E repo \in ChainRepos : CallAnalyze(repo)
    \/ \E repo \in ChainRepos : CallTrends(repo)
    \/ \E pid \in ProjectIds, wait \in BOOLEAN,
          to \in {0, DefaultTimeout}, pi \in {0, DefaultPollInterval} :
            CallGetParsingStatus(pid, wait, to, pi)
    \/ \E r \in Responses("project_id") : ParseReturn(r)
    \/ \E r \in Responses("status"), d \in FetchTimes : StatusReturn(r, d)
    \/ \E extra \in 0..MaxOversleep : SleepReturn(extra)
    \/ \E r \in Responses("conversation_id") : ConversationReturn(r)
    \/ \E r \in Responses("message") : MessageReturn(r)

Spec == Init /\ [][Next]_vars

-----------------------------------------------------------------------------
(* Properties *)

Tools == {"start_repo_parsing", "check_repo_parsing_status", "ask_parsed_repo",
          "analyze_repository", "get_repository_trends"}

Ready == DictResp("status", "ready")

\* every status fetched so far came back as a record that is not "ready"
NeverReady == \A i \in 1..Len(fetched) : fetched[i] \in {"queued", Null}

\* every status fetched so far was "queued"
AlwaysQueued == \A i \in 1..Len(fetched) : fetched[i] = "queued"

\* position of the first "ready" among the fetched statuses (0 if none)
FirstReady ==
    IF \E i \in 1..Len(fetched) : fetched[i] = "ready"
    THEN CHOOSE i \in 1..Len(fetched) :
            fetched[i] = "ready" /\ \A j \in 1..(i - 1) : fetched[j] # "ready"
    ELSE 0

Issued(req) == \E i \in 1..Len(calls) : calls[i] = req

RECURSIVE SlashCount(_)
SlashCount(repo) ==
    IF repo = <<>> THEN 0
    ELSE (IF Head(repo) = "/" THEN 1 ELSE 0) + SlashCount(Tail(repo))

\* C1: ask_parsed_repo whose status fetch returns "ready" makes its remote
\* calls one at a time in the order status, create-conversation, send-message;
\* with a non-empty conversation_id and a message response R it ends after
\* exactly these 3 calls and returns str(R).
C1_AskReadyThreeCallsInOrder ==
    (tool = "ask_parsed_repo" /\ fetched # <<>> /\ fetched[1] = "ready") =>
        /\ fetched = <<"ready">>
        /\ returned <= Len(calls) /\ Len(calls) <= returned + 1
        /\ (pc = "done" => returned = Len(calls))
        /\ Len(calls) >= 2
        /\ SubSeq(calls, 1, 2) = <<"status", "conversation">>
        /\ (returned >= 2 /\ Truthy(conversation_id) =>
                calls = <<"status", "conversation", "message">>)
        /\ (returned >= 2 /\ ~Truthy(conversation_id) => Len(calls) = 2)
        /\ (sent.kind \in {"dict", "list"} =>
                /\ pc = "done"
                /\ returned = 3
                /\ result = Returned(Str(sent)))

C1_Witness ==
    /\ tool = "ask_parsed_repo"
    /\ pc = "done"
    /\ fetched = <<"ready">>
    /\ conversation_id = "c1"
    /\ sent = DictResp("message", "42")
    /\ calls = <<"status", "conversation", "message">>
    /\ Contains(result.str, <<"42">>)

\* C2: ask_parsed_repo whose status never becomes "ready" before the 600 s
\* deadline passes returns a string that starts with "Timeout waiting for
\* repository parsing to complete" and issues no create-conversation and no
\* send-message call.
C2_AskTimeoutNoConversation ==
    (tool = "ask_parsed_repo" /\ NeverReady) =>
        /\ ~Issued("conversation")
        /\ ~Issued("message")
        /\ (pc = "done" =>
                /\ DeadlinePassed(clock, start_time, AskTimeout)
                /\ result.outcome = "returned"
                /\ Len(result.str) >= 2
                /\ SubSeq(result.str, 1, 2) =
                     <<"Timeout", "waiting for repository parsing to complete:">>)

C2_Witness ==
    /\ tool = "ask_parsed_repo"
    /\ pc = "done"
    /\ NeverReady
    /\ Len(fetched) >= 2
    /\ StartsWith(result.str, "Timeout")

\* C3: the waiting poller returns the first "ready" record it fetches, after
\* exactly as many fetches as the position of that record, having slept once
\* between consecutive fetches and fetching nothing afterwards; until then
\* it gives up only when a deadline check finds the deadline passed.
C3_PollerReturnsAtFirstReady ==
    (tool = "get_parsing_status" /\ wait_for_ready) =>
        /\ Len(calls) = sleeps + 1
        /\ (FirstReady > 0 =>
                /\ Len(fetched) = FirstReady
                /\ Len(calls) = FirstReady
                /\ sleeps = FirstReady - 1
                /\ pc = "done"
                /\ result.outcome = "returned"
                /\ polled = Ready)
        /\ (NeverReady /\ pc = "done" =>
                DeadlinePassed(clock, start_time, timeout))

C3_Witness ==
    /\ tool = "get_parsing_status"
    /\ wait_for_ready
    /\ poll_interval = 0
    /\ fetched = <<"queued", "queued", "ready">>
    /\ Len(calls) = 3
    /\ polled = Ready
    /\ pc = "done"

\* C4 as stated: with timeout 0 and a status that is always "queued" the
\* poller raises TimeoutError at its first check, after exactly one fetch
\* and no sleep.
C4_Original_TimeoutAtFirstCheck ==
    (/\ tool = "get_parsing_status"
     /\ wait_for_ready
     /\ timeout = 0
     /\ fetched # <<>>
     /\ AlwaysQueued) =>
        /\ Len(fetched) = 1
        /\ sleeps = 0
        /\ pc = "done"
        /\ result.exc.cls = "TimeoutError"

\* C4 amended: with timeout 0 and a status that is always "queued" the
\* poller raises TimeoutError at the first check that reads a clock later
\* than start_time, which is after exactly one fetch and no sleep when the
\* first fetch took measurable time; it goes on to sleep only from a check
\* at which no time has elapsed.
C4_TimeoutAtFirstElapsedCheck ==
    (/\ tool = "get_parsing_status"
     /\ wait_for_ready
     /\ timeout = 0
     /\ fetched # <<>>
     /\ AlwaysQueued) =>
        /\ (pc = "sleeping" => ~(clock > start_time))
        /\ (pc = "done" =>
                /\ result = Raised(TimeoutError(project_id, 0))
                /\ clock > start_time)
        /\ (Len(fetched) = 1 /\ sleeps = 0 /\ clock > start_time =>
                pc = "done")

C4_Witness ==
    /\ tool = "get_parsing_status"
    /\ wait_for_ready
    /\ timeout = 0
    /\ fetched = <<"queued">>
    /\ sleeps = 0
    /\ pc = "done"
    /\ result.exc.cls = "TimeoutError"

\* C5: none of the five tools ever raises: whatever the remote service does
\* (transport failure, poller timeout, missing field, wrong shape), a
\* finished invocation has returned a string.
C5_ToolsNeverRaise ==
    tool \in Tools =>
        /\ result.outcome # "raised"
        /\ (pc = "done" => result.outcome = "returned" /\ result.str # <<>>)

C5_Witness ==
    /\ tool = "ask_parsed_repo"
    /\ pc = "done"
    /\ failure # NoFailure
    /\ Issued("conversation")
    /\ result.outcome = "returned"

\* C6: analyze_repository and get_repository_trends issue a parse call
\* first; when the parse response has no project_id (absent, null or empty)
\* they return a failure string that mentions "project_id" and issue no
\* further remote call.
C6_NoProjectIdStopsChain ==
    tool \in ChainTools =>
        /\ calls # <<>> /\ calls[1] = "parse"
        /\ (IsDict(parsed) /\ ~Truthy(Get(parsed)) =>
                /\ pc = "done"
                /\ calls = <<"parse">>
                /\ result.outcome = "returned"
                /\ StartsWith(result.str, "Failed")
                /\ Contains(result.str, <<"project_id">>))

C6_Witness ==
    /\ tool = "get_repository_trends"
    /\ parsed = DictResp("project_id", Absent)
    /\ pc = "done"
    /\ calls = <<"parse">>

\* C7 as stated: when the inner ask_parsed_repo ends in a failure,
\* analyze_repository and get_repository_trends return that inner failure
\* string itself, never a success-shaped string wrapped around it.
C7_Original_InnerFailurePropagated ==
    (/\ tool \in ChainTools
     /\ pc = "done"
     /\ \/ ask_outcome \in {"timeout", "no_conversation"}
        \/ ask_outcome = "error" /\ failure # NoFailure) =>
        result = Returned(ask_ret)

\* C8 as stated: whenever a remote call of a tool fails with a transport
\* error, the string the tool returns contains "Network error - " followed
\* by the text of that error.
C8_Original_NetworkMarkerEverywhere ==
    (tool \in Tools /\ pc = "done" /\ failure # NoFailure) =>
        Contains(result.str, <<"Network error -", failure>>)

\* C8 amended: whenever a remote call of a tool fails with a transport
\* error, the string the tool returns contains the text of that error word
\* for word; start_repo_parsing and check_repo_parsing_status put the
\* "Network error - " marker in front of it.
C8_FailureTextSurfaces ==
    (tool \in Tools /\ pc = "done" /\ failure # NoFailure) =>
        /\ result.outcome = "returned"
        /\ Contains(result.str, <<failure>>)
        /\ (tool \in {"start_repo_parsing", "check_repo_parsing_status"} =>
                Contains(result.str, <<"Network error -", failure>>))

C8_Witness ==
    /\ tool = "get_repository_trends"
    /\ pc = "done"
    /\ failure \in ErrorTexts
    /\ Issued("message")
    /\ Contains(result.str, <<failure>>)

\* C9: start_repo_parsing with a repo_name without '/' (the empty one
\* included) returns the validation-failure string and issues no request;
\* with exactly one '/' it issues exactly one parse request and, when the
\* response holds project_id, returns a string containing that project_id.
C9_StartRequestCount ==
    tool = "start_repo_parsing" =>
        /\ (SlashCount(repo_name) = 0 =>
                /\ calls = <<>>
                /\ pc = "done"
                /\ result = Returned(InvalidRepoName))
        /\ (SlashCount(repo_name) = 1 =>
                /\ calls = <<"parse">>
                /\ (IsDict(parsed) /\ HasKey(parsed) =>
                        /\ pc = "done"
                        /\ Contains(result.str,
                                    <<"Project ID:", StrOf(parsed.val)>>)))

C9_Witness ==
    /\ tool = "start_repo_parsing"
    /\ SlashCount(repo_name) = 1
    /\ parsed = DictResp("project_id", "p1")
    /\ pc = "done"
    /\ Contains(result.str, <<"p1">>)

\* C10: a waiting get_parsing_status returns only a record whose status is
\* "ready", so ask_parsed_repo (alone or inside the chain tools) issues
\* create-conversation or send-message only after one of its status fetches
\* returned "ready", and never ends with "Project ... is not ready".
C10_ReadyIsSoleSuccess ==
    /\ (wait_for_ready /\ polled # NoResp => polled = Ready)
    /\ (tool \in AskTools /\ (Issued("conversation") \/ Issued("message")) =>
            FirstReady > 0)
    /\ ask_outcome # "not_ready"
    /\ (tool \in AskTools /\ pc = "done" =>
            ~Contains(result.str, <<"is not ready for querying. Status:">>))

C10_Witness ==
    /\ tool = "analyze_repository"
    /\ fetched = <<"queued", "ready">>
    /\ polled = Ready
    /\ Issued("message")
    /\ pc = "done"

====
